---- MODULE Spec2Model ----
(***************************************************************************)
(* The service worker of the offline chat application (sw.js), in its      *)
(* three variants: "neurolocal" (neurolocal-v2), "minimal" (offline-ai-v3) *)
(* and "full" (Offline AI Assistant 3.0.0).  The state is the origin's     *)
(* Cache Storage, the registration's workers, the page's controller and    *)
(* the asynchronous tasks started by fetch and message events; every await *)
(* of a handler is a step at which other tasks may run.                    *)
(***************************************************************************)
EXTENDS Integers, Sequences, FiniteSets, TLC

\* Bounds of the model.
MaxVersion == 2
MaxTasks == 2
MaxMessages == 1
MaxBuckets == 5
MaxVer == 2

Variants == {"neurolocal", "minimal", "full"}

(***************************************************************************)
(* Strings.  A string is a sequence of tokens; the tokens are cut so that  *)
(* every pattern the code searches for is a run of whole tokens.           *)
(***************************************************************************)
Includes(s, sub) ==
    \E i \in 0..(Len(s) - Len(sub)) : SubSeq(s, i + 1, i + Len(sub)) = sub

StartsWith(s, pre) ==
    Len(pre) <= Len(s) /\ SubSeq(s, 1, Len(pre)) = pre

EndsWith(s, suf) ==
    Len(suf) <= Len(s) /\ SubSeq(s, Len(s) - Len(suf) + 1, Len(s)) = suf

\* The index of the first token of s at or after i that satisfies "is in
\* stop", or Len(s) + 1.
RECURSIVE FirstIn(_, _, _)
FirstIn(s, i, stop) ==
    IF i > Len(s) THEN Len(s) + 1
    ELSE IF s[i] \in stop THEN i
    ELSE FirstIn(s, i + 1, stop)

\* The worker's own location: scripts are served from the origin's root.
Origin == [scheme |-> "https:", host |-> <<"app", ".example">>]

QueryTokens == {"?family=Inter"}

\* new URL(raw, base): an absolute string is split into scheme, host, path
\* and search; "/p" and "./p" are resolved against the origin's root.  An
\* empty path is "/".
ParseURL(raw) ==
    IF Len(raw) >= 3 /\ raw[2] = "/" /\ raw[3] = "/"
    THEN LET p == FirstIn(raw, 4, {"/"} \cup QueryTokens)
             q == FirstIn(raw, 4, QueryTokens)
             path == SubSeq(raw, p, q - 1)
         IN  [scheme |-> raw[1],
              host   |-> SubSeq(raw, 4, p - 1),
              path   |-> IF path = <<>> THEN <<"/">> ELSE path,
              search |-> SubSeq(raw, q, Len(raw))]
    ELSE LET rel == IF StartsWith(raw, <<".", "/">>) THEN Tail(raw) ELSE raw
             q == FirstIn(rel, 1, QueryTokens)
         IN  [scheme |-> Origin.scheme,
              host   |-> Origin.host,
              path   |-> SubSeq(rel, 1, q - 1),
              search |-> SubSeq(rel, q, Len(rel))]

\* url.href, url.hostname, url.pathname
Href(u) == <<u.scheme, "/", "/">> \o u.host \o u.path \o u.search
Hostname(u) == u.host
Pathname(u) == u.path

\* The key under which the Cache API stores a request: its absolute URL.
KeyOf(raw) == Href(ParseURL(raw))

(***************************************************************************)
(* The manifests.                                                          *)
(***************************************************************************)
\* neurolocal-v2: ASSETS
ASSETS ==
    << <<".", "/">>,
       <<".", "/", "index", ".html">>,
       <<".", "/", "manifest", ".json">>,
       <<"https:", "/", "/", "cdn", ".tailwindcss", ".com">>,
       <<"https:", "/", "/", "cdn", ".jsdelivr", ".net", "/", "npm", "/",
         "marked", "/", "marked", ".min", ".js">>,
       <<"https:", "/", "/", "cdn", ".jsdelivr", ".net", "/", "npm", "/",
         "dompurify", "/", "dist", "/", "purify", ".min", ".js">> >>

\* offline-ai-v3 (minimal): the list given to addAll
MINIMAL_ASSETS ==
    << <<".", "/">>,
       <<".", "/", "index", ".html">>,
       <<".", "/", "app", ".js">>,
       <<".", "/", "tailwind", ".css">>,
       <<".", "/", "webllm", ".bundle", ".js">>,
       <<".", "/", "manifest", ".json">> >>

\* Offline AI Assistant 3.0.0: CORE_ASSETS
CORE_ASSETS ==
    << <<"/">>,
       <<"/", "index", ".html">>,
       <<"/", "manifest", ".json">>,
       <<"/", "app", ".js">>,
       <<"https:", "/", "/", "cdn", ".tailwindcss", ".com">>,
       <<"https:", "/", "/", "fonts", ".googleapis", ".com", "/", "css2",
         "?family=Inter">>,
       <<"https:", "/", "/", "fonts", ".gstatic", ".com", "/", "s", "/",
         "inter", ".woff2">>,
       <<"https:", "/", "/", "cdn", ".jsdelivr", ".net", "/", "npm", "/",
         "@", "mlc-ai", "/", "web-llm", "/", "+esm">> >>

Range(s) == {s[i] : i \in DOMAIN s}

Manifest(variant) ==
    CASE variant = "neurolocal" -> ASSETS
      [] variant = "minimal"    -> MINIMAL_ASSETS
      [] OTHER                  -> CORE_ASSETS

ManifestKeys(variant) == {KeyOf(a) : a \in Range(Manifest(variant))}

(***************************************************************************)
(* Cache Storage.  A bucket is created by caches.open and keeps its place  *)
(* in buckets for ever: caches.delete only unlists it (live = FALSE), and  *)
(* a task that opened it before still reads and writes it through its      *)
(* handle.  The index of a bucket is its handle; the order of buckets is    *)
(* the order of caches.keys().                                             *)
(***************************************************************************)
\* neurolocal-v2: CACHE_NAME; minimal: CACHE; full: CACHE_NAME
CACHE_NAME(variant, tag) ==
    IF variant = "neurolocal" THEN <<"neurolocal-v", tag>>
    ELSE <<"offline-ai-v", tag>>

\* full: CORE_CACHE
CORE_CACHE(tag) == <<"offline-ai-core-v", tag>>

\* full: MODEL_CACHE_CONFIG.name
MODEL_CACHE == <<"mlc-model-cache", 0>>

\* The bucket the inference engine keeps its weights in.
ENGINE_CACHE == <<"webllm/model", 0>>

\* The bucket an install handler populates.
InstallCache(variant, tag) ==
    IF variant = "full" THEN CORE_CACHE(tag) ELSE CACHE_NAME(variant, tag)

\* The names an activate handler keeps.
Registry(variant, tag) ==
    IF variant = "full" THEN {CACHE_NAME(variant, tag), CORE_CACHE(tag)}
    ELSE {CACHE_NAME(variant, tag)}

NoResponse == [url |-> <<>>, ver |-> 0, ok |-> FALSE]

Response(key, ver, ok) == [url |-> key, ver |-> ver, ok |-> ok]

\* caches.keys()
Keys(b) == {b[i].name : i \in {j \in DOMAIN b : b[j].live}}

\* The handle of the listed bucket called name, or 0.
Handle(b, name) ==
    IF \E i \in DOMAIN b : b[i].live /\ b[i].name = name
    THEN CHOOSE i \in DOMAIN b : b[i].live /\ b[i].name = name
    ELSE 0

\* caches.open(name): the store after the call; the bucket is created if
\* no listed bucket has the name.
Open(b, name) ==
    IF Handle(b, name) # 0 THEN b
    ELSE Append(b, [name |-> name, live |-> TRUE, entries |-> <<>>])

CanOpen(b, name) == Handle(b, name) # 0 \/ Len(b) < MaxBuckets

\* caches.delete(name) for every name of names
DeleteAll(b, names) ==
    [i \in DOMAIN b |->
        IF b[i].name \in names THEN [b[i] EXCEPT !.live = FALSE] ELSE b[i]]

\* A put that keeps the entry a key already has.
PutEntryIfAbsent(entries, key, resp) ==
    [k \in (DOMAIN entries) \cup {key} |->
        IF k \in DOMAIN entries THEN entries[k] ELSE resp]

\* cache.put(key, response) through handle h: the entry of key is replaced
PutEntry(entries, key, resp) ==
    [k \in (DOMAIN entries) \cup {key} |->
        IF k = key THEN resp ELSE entries[k]]

Put(b, h, key, resp) ==
    [b EXCEPT ![h].entries = PutEntry(@, key, resp)]

\* cache.match(key) through handle h
Match(b, h, key) ==
    IF key \in DOMAIN b[h].entries THEN b[h].entries[key] ELSE NoResponse

\* caches.match(key): the entry of the first listed bucket that has one
MatchAny(b, key) ==
    LET hits == {i \in DOMAIN b : b[i].live /\ key \in DOMAIN b[i].entries}
    IN  IF hits = {} THEN NoResponse
        ELSE b[CHOOSE i \in hits : \A j \in hits : i <= j].entries[key]

\* addAll that stores the assets of the worker's own origin only.
AddAllSameOrigin(b, h, assets, ver) ==
    LET own == {KeyOf(a) : a \in {x \in Range(assets) :
                    ParseURL(x).host = Origin.host}}
    IN  [b EXCEPT ![h].entries =
            [k \in (DOMAIN @) \cup own |->
                IF k \in own THEN Response(k, ver, TRUE) ELSE @[k]]]

\* cache.addAll(assets) once every fetch has answered with an ok response
AddAll(b, h, assets, ver) ==
    [b EXCEPT ![h].entries =
        [k \in (DOMAIN @) \cup {KeyOf(a) : a \in Range(assets)} |->
            IF k \in {KeyOf(a) : a \in Range(assets)}
            THEN Response(k, ver, TRUE) ELSE @[k]]]

(***************************************************************************)
(* State.                                                                  *)
(***************************************************************************)
VARIABLES
    variant,     \* which of the three scripts is deployed
    buckets,     \* Cache Storage
    workers,     \* the registration's workers, by version tag
    controller,  \* the tag of the worker that controls the open page, or 0
    tasks,       \* one record per fetch event the page has caused
    models       \* one record per CACHE_MODEL message

vars == <<variant, buckets, workers, controller, tasks, models>>

Tags == 1..MaxVersion

\* failed: the install handler's promise rejected; born: the number of
\* buckets ever created when the browser began to activate the worker;
\* claimed: the activate handler has called clients.claim().
NoWorker == [state |-> "none", pc |-> "idle", skip |-> FALSE, handle |-> 0,
             keys |-> {}, failed |-> FALSE, born |-> 0, claimed |-> FALSE]

Init ==
    /\ variant \in Variants
    /\ buckets = <<>>
    /\ workers = [t \in Tags |-> NoWorker]
    /\ controller = 0
    /\ tasks = <<>>
    /\ models = <<>>

(***************************************************************************)
(* Installation.                                                           *)
(***************************************************************************)
\* An install handler that calls skipWaiting() before populating its cache,
\* whatever the script.
InstallStartSkipping(v) ==
    [NoWorker EXCEPT !.state = "installing", !.pc = "open", !.skip = TRUE]

\* The install handler up to its first await.  neurolocal calls
\* skipWaiting() after starting the population, minimal before it; full
\* calls it only after addAll.
InstallStart(v) == [NoWorker EXCEPT !.state = "installing", !.pc = "open",
                                    !.skip = (v # "full")]

\* A new script version is registered and its install event is dispatched.
Deploy(t) ==
    /\ workers[t].state = "none"
    /\ \A u \in Tags : u < t => workers[u].state \in {"activated", "redundant"}
    /\ workers' = [workers EXCEPT ![t] = InstallStart(variant)]
    /\ UNCHANGED <<variant, buckets, controller, tasks, models>>

\* caches.open(CORE_CACHE) of the install handler
InstallOpen(t) ==
    /\ workers[t].state = "installing" /\ workers[t].pc = "open"
    /\ CanOpen(buckets, InstallCache(variant, t))
    /\ buckets' = Open(buckets, InstallCache(variant, t))
    /\ workers' = [workers EXCEPT ![t].pc = "addAll",
                                  ![t].handle = Handle(buckets', InstallCache(variant, t))]
    /\ UNCHANGED <<variant, controller, tasks, models>>

\* The worker after addAll has stored every asset: full calls skipWaiting().
InstallDone(w) == [w EXCEPT !.state = "installed", !.pc = "idle", !.skip = TRUE]

\* The worker after addAll has rejected: the promise given to waitUntil
\* rejects and the browser discards the worker.
InstallFailed(w) ==
    [w EXCEPT !.state = "redundant", !.pc = "idle", !.failed = TRUE]

\* addAll that stores each response as it arrives, and so keeps the assets
\* that were fetched when another fails.
AddAllPartial(b, h, assets, failed, ver) ==
    LET got == {KeyOf(a) : a \in Range(assets) \ failed}
    IN  [b EXCEPT ![h].entries =
            [k \in (DOMAIN @) \cup got |->
                IF k \in got THEN Response(k, ver, TRUE) ELSE @[k]]]

\* cache.addAll(assets) when the fetches of failed did not answer with an ok
\* response: addAll rejects and stores nothing.
AddAllRejected(b, h, assets, failed, ver) == b

\* The sets of assets whose fetch may fail in one addAll: none, any single
\* one, or all of them.
FailedSets(assets) ==
    {{}} \cup {{a} : a \in Range(assets)} \cup {Range(assets)}

\* cache.addAll(assets): failed are the assets whose fetch was rejected or
\* answered with a status that is not ok.  Nothing is stored unless every
\* asset was fetched.
InstallAddAll(t) ==
    /\ workers[t].state = "installing" /\ workers[t].pc = "addAll"
    /\ \E ver \in 1..MaxVer, failed \in FailedSets(Manifest(variant)) :
          IF failed = {}
          THEN /\ buckets' = AddAll(buckets, workers[t].handle, Manifest(variant), ver)
               /\ workers' = [workers EXCEPT ![t] = InstallDone(@)]
          ELSE /\ buckets' = AddAllRejected(buckets, workers[t].handle,
                                              Manifest(variant), failed, ver)
               /\ workers' = [workers EXCEPT ![t] = InstallFailed(@)]
    /\ UNCHANGED <<variant, controller, tasks, models>>

(***************************************************************************)
(* Activation.                                                             *)
(***************************************************************************)
\* The activate handler up to its first await.  neurolocal and minimal call
\* clients.claim() at once; full awaits the deletions first.
ClaimsAtOnce(v) == v # "full"

ActivateStart(v, w) ==
    [w EXCEPT !.state = "activating", !.claimed = ClaimsAtOnce(v),
              !.pc = IF v = "minimal" THEN "finish" ELSE "keys"]

\* The browser activates an installed worker that has called skipWaiting()
\* (or when no page is controlled): the worker it replaces becomes
\* redundant and the pages that worker controlled change to the new one.
TryActivate(t) ==
    /\ workers[t].state = "installed"
    /\ workers[t].skip \/ controller = 0
    /\ workers' = [u \in Tags |->
          IF u = t
          THEN [ActivateStart(variant, workers[t]) EXCEPT !.born = Len(buckets)]
          ELSE IF workers[u].state \in {"activating", "activated"}
               THEN [workers[u] EXCEPT !.state = "redundant"]
               ELSE workers[u]]
    /\ controller' = IF ClaimsAtOnce(variant) \/ controller # 0 THEN t ELSE 0
    /\ UNCHANGED <<variant, buckets, tasks, models>>

\* await caches.keys()
ActivateKeys(t) ==
    /\ workers[t].state = "activating" /\ workers[t].pc = "keys"
    /\ workers' = [workers EXCEPT ![t].keys = Keys(buckets), ![t].pc = "delete"]
    /\ UNCHANGED <<variant, buckets, controller, tasks, models>>

\* A cleanup that spares every bucket of core assets, whatever its version.
StaleButCore(v, t, keys) ==
    {k \in keys : k \notin Registry(v, t) /\ k[1] # CORE_CACHE(t)[1]
                                           /\ k[1] # CACHE_NAME("neurolocal", t)[1]}

\* The keys the activate handler deletes.
Stale(v, t, keys) == {k \in keys : k \notin Registry(v, t)}

\* Promise.all(keys.map(key => caches.delete(key)))
ActivateDelete(t) ==
    /\ workers[t].state = "activating" /\ workers[t].pc = "delete"
    /\ buckets' = DeleteAll(buckets, Stale(variant, t, workers[t].keys))
    /\ workers' = [workers EXCEPT
                      ![t].pc = IF variant = "full" THEN "claim" ELSE "finish"]
    /\ UNCHANGED <<variant, controller, tasks, models>>

\* await self.clients.claim() of full
ActivateClaim(t) ==
    /\ workers[t].state = "activating" /\ workers[t].pc = "claim"
    /\ controller' = t
    /\ workers' = [workers EXCEPT ![t].pc = "finish", ![t].claimed = TRUE]
    /\ UNCHANGED <<variant, buckets, tasks, models>>

\* The promise given to waitUntil has settled: the worker is activated.
ActivateFinish(t) ==
    /\ workers[t].state = "activating" /\ workers[t].pc = "finish"
    /\ workers' = [workers EXCEPT ![t].state = "activated", ![t].pc = "idle"]
    /\ UNCHANGED <<variant, buckets, controller, tasks, models>>

(***************************************************************************)
(* The page's requests and the fetch handlers' classification.             *)
(***************************************************************************)
NoHeader == <<>>

AppURL(path) == <<"https:", "/", "/", "app", ".example">> \o path

WeightsURL ==
    <<"https:", "/", "/", "huggingface", ".co", "/", "mlc-ai", "/", "gemma",
      "/", "resolve", "/", "main", "/", "params", ".bin">>

\* A script on a CDN host; it is in the manifest of neurolocal only.
MarkedURL == ASSETS[5]

Requests ==
    { [method |-> "GET", url |-> AppURL(<<"/", "index", ".html">>),
       accept |-> <<"text/html", ",", "*/*">>],
      [method |-> "GET", url |-> AppURL(<<"/", "app", ".js">>),
       accept |-> <<"*/*">>],
      [method |-> "POST", url |-> AppURL(<<"/", "api", "/", "chat">>),
       accept |-> <<"application/json">>],
      [method |-> "GET", url |-> AppURL(<<"/", "api", "/", "status">>),
       accept |-> <<"application/json">>],
      [method |-> "GET", url |-> WeightsURL, accept |-> NoHeader],
      [method |-> "GET",
       url |-> AppURL(<<"/", "dist", "/", "models", "/", "gemma", ".wasm">>),
       accept |-> <<"*/*">>],
      [method |-> "GET",
       url |-> <<"chrome-extension:", "/", "/", "abc", "/", "inject", ".js">>,
       accept |-> <<"*/*">>],
      [method |-> "GET", url |-> MarkedURL, accept |-> <<"*/*">>],
      [method |-> "GET", url |-> AppURL(<<"/", "api", "/", "status">>),
       accept |-> <<"text/html">>] }

\* request.headers.get('accept')?.includes('text/html')
AcceptsHtml(req) ==
    req.accept # NoHeader /\ Includes(req.accept, <<"text/html">>)

\* full: isCoreAsset(url)
isCoreAsset(url) == \E a \in Range(CORE_ASSETS) : Includes(Href(url), a)

cdnDomains ==
    { <<"cdn", ".tailwindcss", ".com">>, <<"fonts", ".googleapis", ".com">>,
      <<"fonts", ".gstatic", ".com">>, <<"cdn", ".jsdelivr", ".net">> }

\* full: isCDNAsset(url)
isCDNAsset(url) == \E d \in cdnDomains : Includes(Hostname(url), d)

\* The requests each fetch handler returns from before respondWith.
BypassedNeurolocal(req) ==
    LET url == ParseURL(req.url)
    IN  \/ Includes(Hostname(url), <<"huggingface">>)
        \/ Includes(Hostname(url), <<"mlc-ai">>)
        \/ EndsWith(Pathname(url), <<".bin">>)
        \/ EndsWith(Pathname(url), <<".wasm">>)

BypassedMinimal(req) == req.method # "GET"

BypassedFull(req) ==
    \/ req.method # "GET"
    \/ StartsWith(req.url, <<"chrome-extension:", "/", "/">>)
    \/ Includes(req.url, <<"/", "dist", "/", "models", "/">>)

Bypassed(v, req) ==
    CASE v = "neurolocal" -> BypassedNeurolocal(req)
      [] v = "minimal"    -> BypassedMinimal(req)
      [] OTHER            -> BypassedFull(req)

\* full: the strategy the respondWith body chooses
StrategyFull(req) ==
    LET url == ParseURL(req.url)
    IN  IF Includes(Pathname(url), <<"/", "api", "/">>) THEN "NETWORK_FIRST"
        ELSE IF isCoreAsset(url) \/ AcceptsHtml(req) THEN "CACHE_FIRST"
        ELSE IF isCDNAsset(url) THEN "STALE_WHILE_REVALIDATE"
        ELSE "NETWORK_FIRST"

\* A handler without any early return.
ClassifyWithoutBypass(v, req) ==
    IF v = "full" THEN StrategyFull(req) ELSE "MATCH_THEN_FETCH"

\* What a fetch handler does with a request: BYPASS is the return without
\* respondWith; MATCH_THEN_FETCH is the one strategy of neurolocal and
\* minimal (caches.match, then fetch).
Classify(v, req) ==
    IF Bypassed(v, req) THEN "BYPASS"
    ELSE IF v = "full" THEN StrategyFull(req)
    ELSE "MATCH_THEN_FETCH"

\* The first await of each strategy.
FirstStep(strategy) ==
    CASE strategy = "BYPASS"           -> "done"
      [] strategy = "MATCH_THEN_FETCH" -> "matchAny"
      [] strategy = "NETWORK_FIRST"    -> "fetch"
      [] OTHER                         -> "open"

NoResult == [kind |-> "pending", from |-> "", body |-> NoResponse]
PassThrough == [kind |-> "passthrough", from |-> "", body |-> NoResponse]
Responded(from, body) == [kind |-> "response", from |-> from, body |-> body]
Rejected(error) == [kind |-> "error", from |-> error, body |-> NoResponse]

\* The fetch handler up to its first await.  ops are the Cache Storage calls
\* made for the request so far, cached what the strategy's lookup returned,
\* held the network response, thrown the error the strategy function threw,
\* after the earlier events that had settled when this one was dispatched.
FetchHandler(v, tag, req, settled) ==
    [req |-> req, tag |-> tag, after |-> settled,
     strategy |-> Classify(v, req),
     pc |-> FirstStep(Classify(v, req)), handle |-> 0, ops |-> {},
     cached |-> NoResponse, held |-> NoResponse, thrown |-> "",
     result |-> IF Classify(v, req) = "BYPASS" THEN PassThrough ELSE NoResult]

\* The events whose handling is over: passed through, answered or failed.
SettledEvents(ts) == {i \in DOMAIN ts : ts[i].pc = "done"}

\* The page, controlled by an activated worker, issues a request.
FetchEvent(req) ==
    /\ Len(tasks) < MaxTasks
    /\ controller # 0
    /\ workers[controller].state = "activated"
    /\ tasks' = Append(tasks, FetchHandler(variant, controller, req,
                                            SettledEvents(tasks)))
    /\ UNCHANGED <<variant, buckets, workers, controller, models>>

(***************************************************************************)
(* The network.                                                            *)
(***************************************************************************)
\* fetch rejects
NetworkError == [url |-> <<>>, ver |-> -1, ok |-> FALSE]

\* What fetch(key) may settle with: a rejection, an ok response carrying
\* one of the versions of the resource, or a response with an error status.
Network(key) ==
    {NetworkError} \cup {Response(key, v, TRUE) : v \in 1..MaxVer}
        \cup {Response(key, 0, FALSE)}

(***************************************************************************)
(* The strategies.  A task is at pc; each action below is one await.       *)
(***************************************************************************)
Key(task) == task.req.url

Finish(task, result) == [task EXCEPT !.pc = "done", !.result = result]

\* A catch block that hands the request to networkFirst after a failure.
CaughtRetrying(task, error) ==
    [task EXCEPT !.thrown = error, !.strategy = "NETWORK_FIRST", !.pc = "fetch"]

\* A catch block that rethrows every error.
CaughtRethrowing(task, error) ==
    Finish([task EXCEPT !.thrown = error], Rejected(error))

\* full: an error thrown inside the try block of the respondWith body.  The
\* catch block answers a document request with caches.match('/index.html')
\* and rethrows for any other.
Caught(task, error) ==
    IF AcceptsHtml(task.req)
    THEN [task EXCEPT !.thrown = error, !.pc = "offline"]
    ELSE Finish([task EXCEPT !.thrown = error], Rejected(error))

\* cacheFirst after a hit: event.waitUntil(...) is evaluated in a function
\* that has no binding for event, and the worker's global scope has none
\* either: a ReferenceError before the refresh is started.
CacheFirstHit(task) == Caught(task, "reference")

\* staleWhileRevalidate after its lookup: event.waitUntil(...) as above.
StaleWhileRevalidateLookedUp(task) == Caught(task, "reference")

\* A strategy that opens the cache the install handler populated.
TaskOpenInstallCache(i) ==
    /\ i \in DOMAIN tasks /\ tasks[i].pc = "open"
    /\ CanOpen(buckets, InstallCache(variant, tasks[i].tag))
    /\ buckets' = Open(buckets, InstallCache(variant, tasks[i].tag))
    /\ tasks' = [tasks EXCEPT
          ![i].handle = Handle(buckets', InstallCache(variant, tasks[i].tag)),
          ![i].ops = @ \cup {"open"},
          ![i].pc = IF tasks[i].strategy = "NETWORK_FIRST" THEN "put" ELSE "match"]
    /\ UNCHANGED <<variant, workers, controller, models>>

\* const cache = await caches.open(CACHE_NAME)
TaskOpen(i) ==
    /\ i \in DOMAIN tasks /\ tasks[i].pc = "open"
    /\ CanOpen(buckets, CACHE_NAME(variant, tasks[i].tag))
    /\ buckets' = Open(buckets, CACHE_NAME(variant, tasks[i].tag))
    /\ tasks' = [tasks EXCEPT
          ![i].handle = Handle(buckets', CACHE_NAME(variant, tasks[i].tag)),
          ![i].ops = @ \cup {"open"},
          ![i].pc = IF tasks[i].strategy = "NETWORK_FIRST" THEN "put" ELSE "match"]
    /\ UNCHANGED <<variant, workers, controller, models>>

\* The task after const cachedResponse = await cache.match(request)
Matched(task, cached) ==
    LET t == [task EXCEPT !.cached = cached, !.ops = @ \cup {"match"}]
    IN  IF task.strategy = "STALE_WHILE_REVALIDATE"
        THEN StaleWhileRevalidateLookedUp(t)
        ELSE IF cached # NoResponse THEN CacheFirstHit(t)
        ELSE [t EXCEPT !.pc = "fetch"]

TaskMatch(i) ==
    /\ i \in DOMAIN tasks /\ tasks[i].pc = "match"
    /\ tasks' = [tasks EXCEPT
          ![i] = Matched(@, Match(buckets, tasks[i].handle, Key(tasks[i])))]
    /\ UNCHANGED <<variant, buckets, workers, controller, models>>

\* Strategies that store whatever the fetch resolves with, without looking
\* at response.ok.
FetchedStoringAnyStatus(task, outcome) ==
    CASE task.strategy = "MATCH_THEN_FETCH" ->
            IF outcome = NetworkError THEN Finish(task, Rejected("network"))
            ELSE Finish([task EXCEPT !.held = outcome],
                        Responded("network", outcome))
      [] task.strategy = "NETWORK_FIRST" ->
            IF outcome = NetworkError THEN [task EXCEPT !.pc = "fallback"]
            ELSE [task EXCEPT !.held = outcome, !.pc = "open"]
      [] OTHER ->
            IF outcome = NetworkError THEN Caught(task, "network")
            ELSE [task EXCEPT !.held = outcome, !.pc = "put"]

\* The task after await fetch(request) has settled with outcome.
Fetched(task, outcome) ==
    CASE task.strategy = "MATCH_THEN_FETCH" ->
            IF outcome = NetworkError THEN Finish(task, Rejected("network"))
            ELSE Finish([task EXCEPT !.held = outcome],
                        Responded("network", outcome))
      [] task.strategy = "NETWORK_FIRST" ->
            IF outcome = NetworkError THEN [task EXCEPT !.pc = "fallback"]
            ELSE IF outcome.ok THEN [task EXCEPT !.held = outcome, !.pc = "open"]
            ELSE Finish([task EXCEPT !.held = outcome],
                        Responded("network", outcome))
      [] OTHER ->
            IF outcome = NetworkError THEN Caught(task, "network")
            ELSE IF outcome.ok THEN [task EXCEPT !.held = outcome, !.pc = "put"]
            ELSE Finish([task EXCEPT !.held = outcome],
                        Responded("network", outcome))

TaskFetch(i) ==
    /\ i \in DOMAIN tasks /\ tasks[i].pc = "fetch"
    /\ \E outcome \in Network(Key(tasks[i])) :
          tasks' = [tasks EXCEPT ![i] = Fetched(@, outcome)]
    /\ UNCHANGED <<variant, buckets, workers, controller, models>>

\* await cache.put(request, response.clone()); return response
TaskPut(i) ==
    /\ i \in DOMAIN tasks /\ tasks[i].pc = "put"
    /\ buckets' = Put(buckets, tasks[i].handle, Key(tasks[i]), tasks[i].held)
    /\ tasks' = [tasks EXCEPT
          ![i] = Finish([@ EXCEPT !.ops = @ \cup {"put"}],
                        Responded("network", tasks[i].held))]
    /\ UNCHANGED <<variant, workers, controller, models>>

\* A networkFirst whose catch block rethrows whatever its lookup found.
FellBackIgnoringCache(task, cached) ==
    Caught([task EXCEPT !.cached = cached, !.ops = @ \cup {"match"}], "network")

\* A networkFirst whose catch block returns whatever its lookup resolved
\* with, found or not.
FellBackSwallowing(task, cached) ==
    Finish([task EXCEPT !.cached = cached, !.ops = @ \cup {"match"}],
           Responded("cache", cached))

\* The error networkFirst's catch block caught: the rejection of the fetch,
\* or that of caches.open or cache.put after a fetch that resolved.
CaughtInNetworkFirst(task) ==
    IF task.ops \cap {"openFailed", "putFailed"} # {} THEN "storage"
    ELSE "network"

\* networkFirst after a rejected fetch: await caches.match(request); throw
\* error when nothing is found
FellBack(task, cached) ==
    LET t == [task EXCEPT !.cached = cached, !.ops = @ \cup {"match"}]
    IN  IF cached # NoResponse THEN Finish(t, Responded("cache", cached))
        ELSE Caught(t, CaughtInNetworkFirst(task))

TaskFallback(i) ==
    /\ i \in DOMAIN tasks /\ tasks[i].pc = "fallback"
    /\ tasks' = [tasks EXCEPT ![i] = FellBack(@, MatchAny(buckets, Key(tasks[i])))]
    /\ UNCHANGED <<variant, buckets, workers, controller, models>>

\* A Cache Storage call of a strategy rejects (the quota is exceeded, the
\* store is unreadable).  cacheFirst and staleWhileRevalidate have no
\* handler around their calls, so the error leaves the function;
\* networkFirst opens and puts inside its try block, so its catch block
\* runs.
StorageFailed(task, call) ==
    LET t == [task EXCEPT !.ops = @ \cup {call}]
    IN  IF task.strategy = "NETWORK_FIRST" THEN [t EXCEPT !.pc = "fallback"]
        ELSE Caught(t, "storage")

\* await caches.open(CACHE_NAME) rejects
TaskOpenFails(i) ==
    /\ i \in DOMAIN tasks /\ tasks[i].pc = "open"
    /\ tasks' = [tasks EXCEPT ![i] = StorageFailed(@, "openFailed")]
    /\ UNCHANGED <<variant, buckets, workers, controller, models>>

\* await cache.match(request) rejects
TaskMatchFails(i) ==
    /\ i \in DOMAIN tasks /\ tasks[i].pc = "match"
    /\ tasks' = [tasks EXCEPT ![i] = StorageFailed(@, "matchFailed")]
    /\ UNCHANGED <<variant, buckets, workers, controller, models>>

\* await cache.put(request, response.clone()) rejects: nothing is stored
TaskPutFails(i) ==
    /\ i \in DOMAIN tasks /\ tasks[i].pc = "put"
    /\ tasks' = [tasks EXCEPT ![i] = StorageFailed(@, "putFailed")]
    /\ UNCHANGED <<variant, buckets, workers, controller, models>>

\* The catch block's return caches.match('/index.html'): respondWith is
\* given what the lookup resolves with, and nothing when no bucket has it.
OfflineKey == KeyOf(<<"/", "index", ".html">>)

WentOffline(task, page) ==
    LET t == [task EXCEPT !.ops = @ \cup {"match"}]
    IN  IF page # NoResponse THEN Finish(t, Responded("offline", page))
        ELSE Finish(t, Rejected("empty"))

TaskOffline(i) ==
    /\ i \in DOMAIN tasks /\ tasks[i].pc = "offline"
    /\ tasks' = [tasks EXCEPT ![i] = WentOffline(@, MatchAny(buckets, OfflineKey))]
    /\ UNCHANGED <<variant, buckets, workers, controller, models>>

\* neurolocal and minimal: caches.match(event.request), which finds nothing
\* for a request that is not a GET, then cachedResponse || fetch(request)
LookedUp(task, cached) ==
    LET t == [task EXCEPT !.cached = cached, !.ops = @ \cup {"match"}]
    IN  IF cached # NoResponse THEN Finish(t, Responded("cache", cached))
        ELSE [t EXCEPT !.pc = "fetch"]

TaskMatchAny(i) ==
    /\ i \in DOMAIN tasks /\ tasks[i].pc = "matchAny"
    /\ tasks' = [tasks EXCEPT
          ![i] = LookedUp(@, IF tasks[i].req.method = "GET"
                             THEN MatchAny(buckets, Key(tasks[i]))
                             ELSE NoResponse)]
    /\ UNCHANGED <<variant, buckets, workers, controller, models>>

(***************************************************************************)
(* The CACHE_MODEL message of full, and the inference engine's own store.  *)
(***************************************************************************)
ModelURLs == {WeightsURL}

\* A message event delivered to worker to (0: whichever worker the page
\* holds).
Message(type, url, to) == [type |-> type, url |-> url, to |-> to]

\* The message handler up to its first await.  full's listener acts on
\* type 'CACHE_MODEL' only, with event.waitUntil(cacheModel(event.data.url));
\* neurolocal and minimal register no message listener.  requested are the
\* calls the handler made on the event and on the worker, replaced the
\* entry the put of cacheModel found under url.
MessageHandler(v, data) ==
    LET handled == v = "full" /\ data.type = "CACHE_MODEL"
    IN  [type |-> data.type, to |-> data.to, url |-> data.url,
         pc |-> IF handled THEN "fetch" ELSE "done",
         requested |-> IF handled THEN {"waitUntil"} ELSE {},
         held |-> NoResponse, handle |-> 0, stored |-> FALSE,
         replaced |-> NoResponse]

\* A page posts {type: 'CACHE_MODEL', url} to a worker of the registration.
CacheModelMessage(url) ==
    /\ variant = "full"
    /\ Len(models) < MaxMessages
    /\ \E t \in Tags : workers[t].state \in {"installing", "installed",
                                              "activating", "activated"}
    /\ models' = Append(models,
                        MessageHandler(variant, Message("CACHE_MODEL", url, 0)))
    /\ UNCHANGED <<variant, buckets, workers, controller, tasks>>

\* The page finds registration.waiting set and posts {type: 'SKIP_WAITING'}
\* to it.
SkipWaitingMessage(t) ==
    /\ workers[t].state = "installed"
    /\ Len(models) < MaxMessages
    /\ models' = Append(models,
                        MessageHandler(variant, Message("SKIP_WAITING", <<>>, t)))
    /\ UNCHANGED <<variant, buckets, workers, controller, tasks>>

\* A cacheModel that opens the cache whatever its fetch settled with.
ModelFetchedOpeningFirst(m, outcome) == [m EXCEPT !.held = outcome, !.pc = "open"]

\* A cacheModel that looks at response.ok and ends without opening the
\* cache when the status is an error.
ModelFetchedCheckingStatus(m, outcome) ==
    IF outcome = NetworkError THEN [m EXCEPT !.pc = "done"]
    ELSE IF ~outcome.ok THEN [m EXCEPT !.held = outcome, !.pc = "done"]
    ELSE [m EXCEPT !.held = outcome, !.pc = "open"]

\* cacheModel: const response = await fetch(url); a rejection is caught and
\* logged.
ModelFetched(m, outcome) ==
    IF outcome = NetworkError THEN [m EXCEPT !.pc = "done"]
    ELSE [m EXCEPT !.held = outcome, !.pc = "open"]

CacheModelFetch(i) ==
    /\ i \in DOMAIN models /\ models[i].pc = "fetch"
    /\ \E outcome \in Network(models[i].url) :
          models' = [models EXCEPT ![i] = ModelFetched(@, outcome)]
    /\ UNCHANGED <<variant, buckets, workers, controller, tasks>>

\* cacheModel: const cache = await caches.open(MODEL_CACHE_CONFIG.name)
CacheModelOpen(i) ==
    /\ i \in DOMAIN models /\ models[i].pc = "open"
    /\ CanOpen(buckets, MODEL_CACHE)
    /\ buckets' = Open(buckets, MODEL_CACHE)
    /\ models' = [models EXCEPT ![i].handle = Handle(buckets', MODEL_CACHE),
                                ![i].pc = "put"]
    /\ UNCHANGED <<variant, workers, controller, tasks>>

\* A cacheModel that logs success without the put.
CacheModelPutSkipped(i) ==
    /\ i \in DOMAIN models /\ models[i].pc = "put"
    /\ models' = [models EXCEPT ![i].stored = TRUE, ![i].pc = "done"]
    /\ UNCHANGED <<variant, buckets, workers, controller, tasks>>

\* cacheModel: await cache.put(url, response)
CacheModelPut(i) ==
    /\ i \in DOMAIN models /\ models[i].pc = "put"
    /\ buckets' = Put(buckets, models[i].handle, models[i].url, models[i].held)
    /\ models' = [models EXCEPT
          ![i].replaced = Match(buckets, models[i].handle, models[i].url),
          ![i].stored = TRUE, ![i].pc = "done"]
    /\ UNCHANGED <<variant, workers, controller, tasks>>

\* The inference engine downloads the weights into its own bucket, which it
\* opens in the same Cache Storage.
EngineStore ==
    /\ \E t \in Tags : workers[t].state # "none"
    /\ MatchAny(DeleteAll(buckets, Keys(buckets) \ {ENGINE_CACHE}), WeightsURL)
          = NoResponse
    /\ CanOpen(buckets, ENGINE_CACHE)
    /\ buckets' = Put(Open(buckets, ENGINE_CACHE),
                       Handle(Open(buckets, ENGINE_CACHE), ENGINE_CACHE),
                       WeightsURL, Response(WeightsURL, 1, TRUE))
    /\ UNCHANGED <<variant, workers, controller, tasks, models>>

(***************************************************************************)
(* The system.                                                             *)
(***************************************************************************)
\* The registration's life: versions are installed and activated, pages
\* post CACHE_MODEL messages, the engine stores its weights.
NextLifecycle ==
    \/ \E t \in Tags : Deploy(t)
    \/ \E t \in Tags : InstallOpen(t)
    \/ \E t \in Tags : InstallAddAll(t)
    \/ \E t \in Tags : TryActivate(t)
    \/ \E t \in Tags : ActivateKeys(t)
    \/ \E t \in Tags : ActivateDelete(t)
    \/ \E t \in Tags : ActivateClaim(t)
    \/ \E t \in Tags : ActivateFinish(t)
    \/ \E url \in ModelURLs : CacheModelMessage(url)
    \/ \E t \in Tags : SkipWaitingMessage(t)
    \/ \E i \in 1..MaxMessages : CacheModelFetch(i)
    \/ \E i \in 1..MaxMessages : CacheModelOpen(i)
    \/ \E i \in 1..MaxMessages : CacheModelPut(i)
    \/ EngineStore

\* The page's requests, answered by the worker that controls it.
NextServing ==
    \/ \E req \in Requests : FetchEvent(req)
    \/ \E i \in 1..MaxTasks : TaskOpen(i)
    \/ \E i \in 1..MaxTasks : TaskMatch(i)
    \/ \E i \in 1..MaxTasks : TaskFetch(i)
    \/ \E i \in 1..MaxTasks : TaskPut(i)
    \/ \E i \in 1..MaxTasks : TaskFallback(i)
    \/ \E i \in 1..MaxTasks : TaskOffline(i)
    \/ \E i \in 1..MaxTasks : TaskMatchAny(i)

Next == NextLifecycle \/ NextServing

Spec == Init /\ [][Next]_vars

\* The registration from its first installation, without page requests.
Lifecycle == Init /\ [][NextLifecycle]_vars

\* The state once version 1 has been installed and activated and controls
\* the page: what Deploy(1), InstallOpen(1), InstallAddAll(1) without a
\* failure, and the activation steps leave.
InitServing ==
    /\ variant \in Variants
    /\ \E ver \in 1..MaxVer :
          buckets = AddAll(Open(<<>>, InstallCache(variant, 1)), 1,
                           Manifest(variant), ver)
    /\ workers = [t \in Tags |->
          IF t = 1
          THEN [InstallDone(InstallStart(variant)) EXCEPT
                   !.state = "activated", !.handle = 1, !.born = 1,
                   !.claimed = TRUE,
                   !.keys = IF variant = "minimal" THEN {}
                            ELSE {InstallCache(variant, 1)}]
          ELSE NoWorker]
    /\ controller = 1
    /\ tasks = <<>>
    /\ models = <<>>

\* The activated worker serving the page's requests.
Serving == InitServing /\ [][NextServing]_vars

\* The three strategy functions of full.
Strategies == {"CACHE_FIRST", "NETWORK_FIRST", "STALE_WHILE_REVALIDATE"}

\* A same-origin document, a same-origin script and a script on a CDN host.
CallRequests ==
    {req \in Requests :
        /\ req.method = "GET"
        /\ req.url \in {AppURL(<<"/", "index", ".html">>),
                         AppURL(<<"/", "app", ".js">>), MarkedURL}}

\* The respondWith body calling one of the strategy functions on a request:
\* return await cacheFirst(request), networkFirst(request) or
\* staleWhileRevalidate(request), inside its try block.
StrategyCall(strategy, req) ==
    /\ variant = "full"
    /\ Len(tasks) < MaxTasks
    /\ controller # 0
    /\ tasks' = Append(tasks,
          [FetchHandler(variant, controller, req, SettledEvents(tasks)) EXCEPT
              !.strategy = strategy, !.pc = FirstStep(strategy),
              !.result = NoResult])
    /\ UNCHANGED <<variant, buckets, workers, controller, models>>

NextCalls ==
    \/ \E strategy \in Strategies, req \in CallRequests :
          StrategyCall(strategy, req)
    \/ \E i \in 1..MaxTasks : TaskOpen(i)
    \/ \E i \in 1..MaxTasks : TaskMatch(i)
    \/ \E i \in 1..MaxTasks : TaskFetch(i)
    \/ \E i \in 1..MaxTasks : TaskPut(i)
    \/ \E i \in 1..MaxTasks : TaskFallback(i)
    \/ \E i \in 1..MaxTasks : TaskOffline(i)

\* What earlier requests may have left in the runtime cache: nothing (the
\* cache not yet opened), or an ok response under the key of a request.
Leftovers ==
    {NoResponse} \cup
        {Response(req.url, ver, TRUE) : req \in CallRequests, ver \in 1..MaxVer}

\* The full worker's version 1 installed and activated, as in InitServing,
\* and the runtime cache as earlier requests left it.
InitCalls ==
    /\ variant = "full"
    /\ \E ver \in 1..MaxVer, left \in Leftovers :
          LET core == AddAll(Open(<<>>, CORE_CACHE(1)), 1, CORE_ASSETS, ver)
              runtime == Open(core, CACHE_NAME("full", 1))
          IN  buckets = IF left = NoResponse THEN core
                        ELSE Put(runtime, Handle(runtime, CACHE_NAME("full", 1)),
                                 left.url, left)
    /\ workers = [t \in Tags |->
          IF t = 1
          THEN [InstallDone(InstallStart("full")) EXCEPT
                   !.state = "activated", !.handle = 1, !.born = 1,
                   !.claimed = TRUE, !.keys = {CORE_CACHE(1)}]
          ELSE NoWorker]
    /\ controller = 1
    /\ tasks = <<>>
    /\ models = <<>>

\* Each strategy function of the full worker called on each request,
\* whatever the dispatch of the fetch handler would have chosen for it.
Calls == InitCalls /\ [][NextCalls]_vars

\* The strategy functions when Cache Storage calls may reject.
NextFaults ==
    \/ NextCalls
    \/ \E i \in 1..MaxTasks : TaskOpenFails(i)
    \/ \E i \in 1..MaxTasks : TaskMatchFails(i)
    \/ \E i \in 1..MaxTasks : TaskPutFails(i)

Faults == InitCalls /\ [][NextFaults]_vars

\* What earlier CACHE_MODEL messages may have left in the large-asset cache:
\* nothing (the cache never opened), or whatever response the fetch of
\* cacheModel resolved with.
ModelLeftovers ==
    {NoResponse} \cup
        UNION {Network(url) \ {NetworkError} : url \in ModelURLs}

\* Version 1 installed, activated and in control, as in InitServing; for
\* full, whose message listener calls cacheModel, the large-asset cache as
\* earlier messages left it.
InitIntercepting ==
    /\ variant \in Variants
    /\ \E ver \in 1..MaxVer, left \in ModelLeftovers :
          LET core == AddAll(Open(<<>>, InstallCache(variant, 1)), 1,
                             Manifest(variant), ver)
              large == Open(core, MODEL_CACHE)
          IN  buckets = IF left = NoResponse \/ variant # "full" THEN core
                        ELSE Put(large, Handle(large, MODEL_CACHE),
                                 left.url, left)
    /\ workers = [t \in Tags |->
          IF t = 1
          THEN [InstallDone(InstallStart(variant)) EXCEPT
                   !.state = "activated", !.handle = 1, !.born = 1,
                   !.claimed = TRUE,
                   !.keys = IF variant = "minimal" THEN {}
                            ELSE {InstallCache(variant, 1)}]
          ELSE NoWorker]
    /\ controller = 1
    /\ tasks = <<>>
    /\ models = <<>>

\* Request handling: the fetch handlers of the three scripts on the page's
\* requests, and each strategy function of full on each request.
NextIntercepting ==
    \/ NextServing
    \/ \E strategy \in Strategies, req \in CallRequests :
          StrategyCall(strategy, req)

Intercepting == InitIntercepting /\ [][NextIntercepting]_vars

\* The registration's life from that state on: CACHE_MODEL messages that
\* find the large-asset cache as earlier ones left it, and the next version.
Prewarming == InitIntercepting /\ [][NextLifecycle]_vars

(***************************************************************************)
(* Properties of installation and activation (specification Lifecycle).    *)
(***************************************************************************)
\* A worker whose install handler has completed.
Installed(t) == workers[t].state \in {"installed", "activating", "activated"}

\* cache.match(key) on the listed bucket called name
MatchIn(b, name, key) ==
    IF Handle(b, name) = 0 THEN NoResponse ELSE Match(b, Handle(b, name), key)

\* C1: once a version's install handler has completed, the bucket it
\* populated is listed and holds an ok response for every URL of the
\* manifest (CORE_ASSETS in CORE_CACHE for full).
C1_InstalledManifestCached ==
    \A t \in Tags : Installed(t) =>
        \A a \in Range(Manifest(variant)) :
            /\ MatchIn(buckets, InstallCache(variant, t), KeyOf(a)) # NoResponse
            /\ MatchIn(buckets, InstallCache(variant, t), KeyOf(a)).ok

C1_Witness ==
    /\ variant = "full"
    /\ workers[1].state = "activated" /\ workers[2].state = "installed"
    /\ MatchIn(buckets, CORE_CACHE(2), KeyOf(CORE_ASSETS[8])) # NoResponse

\* C2: a step in which an install fails (a manifest fetch failed) changes
\* no bucket, no other worker and not the page's controller; a worker whose
\* install failed takes no further step (it never lists or deletes caches
\* and never claims pages), is redundant and never controls the page.
C2_FailedInstallIsVoid ==
    [][\A t \in Tags :
          /\ (workers[t].state = "installing" /\ workers'[t].state = "redundant")
                => /\ buckets' = buckets
                   /\ controller' = controller
                   /\ \A u \in Tags \ {t} : workers'[u] = workers[u]
          /\ workers[t].failed => workers'[t] = workers[t]
          /\ workers'[t].failed
                => workers'[t].state = "redundant" /\ controller' # t]_vars

C2_Witness ==
    /\ workers[2].failed
    /\ workers[1].state = "activated" /\ controller = 1
    /\ \A a \in Range(Manifest(variant)) :
          MatchIn(buckets, InstallCache(variant, 1), KeyOf(a)) # NoResponse
    /\ Handle(buckets, InstallCache(variant, 2)) # 0
    /\ buckets[Handle(buckets, InstallCache(variant, 2))].entries = <<>>

\* C3: for the variants whose activate handler cleans up (full and
\* neurolocal): once a version is activated, every bucket that existed when
\* its activation began and whose name is not in its registry is no longer
\* listed; no install bucket of an earlier version is listed, and the
\* version's own install bucket holds every manifest entry.
C3_ActivationPurgesStale ==
    \A t \in Tags :
        (workers[t].state = "activated" /\ variant \in {"full", "neurolocal"}) =>
            /\ \A i \in 1..workers[t].born :
                  buckets[i].name \notin Registry(variant, t) => ~buckets[i].live
            /\ \A u \in Tags :
                  u < t => InstallCache(variant, u) \notin Keys(buckets)
            /\ \A a \in Range(Manifest(variant)) :
                  MatchIn(buckets, InstallCache(variant, t), KeyOf(a)) # NoResponse

C3_Witness ==
    /\ variant = "full"
    /\ workers[2].state = "activated"
    /\ \E i \in DOMAIN buckets :
          /\ buckets[i].name = CORE_CACHE(1) /\ ~buckets[i].live
          /\ DOMAIN buckets[i].entries = ManifestKeys("full")
    /\ \E i \in DOMAIN buckets : buckets[i].name = MODEL_CACHE /\ ~buckets[i].live

\* C4: an entry that cacheModel has stored in mlc-model-cache is returned
\* by a match in mlc-model-cache ever after, whatever install and activate
\* events follow.
C4_ModelEntryKept ==
    \A i \in DOMAIN models :
        models[i].stored => MatchIn(buckets, MODEL_CACHE, models[i].url) # NoResponse

\* C5: no step unlists the inference engine's bucket or changes its
\* entries: activation's cleanup never deletes a cache the worker does not
\* own.
C5_EngineBucketKept ==
    [][\A i \in DOMAIN buckets :
          (buckets[i].name = ENGINE_CACHE /\ buckets[i].live)
             => buckets'[i] = buckets[i]]_vars

\* The fetch of a cacheModel call resolved with a response.
FetchResolved(m) == m.held # NoResponse /\ m.held # NetworkError

\* C17: a step of a message handler changes no bucket other than
\* mlc-model-cache, creates no bucket of another name, and changes no
\* worker and not the page's controller; when the fetch of cacheModel is
\* rejected the handler ends there (the rejection is caught) with every
\* bucket as it was, and a handler that has ended takes no further step.
C17_WriterTouchesOnlyModelCache ==
    [][/\ models' # models =>
            /\ \A b \in DOMAIN buckets :
                  buckets[b].name # MODEL_CACHE => buckets'[b] = buckets[b]
            /\ \A b \in DOMAIN buckets' :
                  b \notin DOMAIN buckets => buckets'[b].name = MODEL_CACHE
            /\ workers' = workers /\ controller' = controller
       /\ \A i \in DOMAIN models :
            /\ (models[i].pc = "fetch" /\ models'[i].pc # "fetch"
                    /\ ~FetchResolved(models'[i]))
                  => /\ models'[i].pc = "done" /\ ~models'[i].stored
                     /\ buckets' = buckets
            /\ models[i].pc = "done" => models'[i] = models[i]]_vars

C17_Witness ==
    \E i \in DOMAIN models :
        /\ models[i].type = "CACHE_MODEL" /\ models[i].pc = "done"
        /\ ~FetchResolved(models[i]) /\ ~models[i].stored
        /\ MODEL_CACHE \notin Keys(buckets)
        /\ workers[1].state = "activated"
        /\ MatchIn(buckets, CORE_CACHE(1), KeyOf(CORE_ASSETS[2])) # NoResponse

C19_SkipWaitingRequestsTakeover ==
    \A i \in DOMAIN models :
        models[i].type = "SKIP_WAITING"
            => "skipWaiting" \in models[i].requested

\* Every URL of the manifest is stored in the bucket version t populates.
Populated(b, t) ==
    \A a \in Range(Manifest(variant)) :
        MatchIn(b, InstallCache(variant, t), KeyOf(a)) # NoResponse

\* C21 as claimed: whatever the script, the step in which a worker calls
\* skipWaiting() leaves every manifest URL stored in its bucket, and a
\* worker whose population failed has not called it.
C21_SkipWaitingAfterPopulation ==
    [][\A t \in Tags :
          /\ (~workers[t].skip /\ workers'[t].skip) => Populated(buckets', t)
          /\ workers'[t].failed => ~workers'[t].skip]_vars

\* C21 as amended: full calls skipWaiting() in the step that completes
\* the population, and not when the population fails; neurolocal and
\* minimal have called it as soon as the install event is dispatched,
\* before anything is stored and whether or not the population fails
\* later.  Whatever the script, a worker begins to activate only with its
\* bucket populated and its install not failed.
C21_SkipWaitingPerScript ==
    [][\A t \in Tags :
          /\ variant = "full" =>
                /\ (~workers[t].skip /\ workers'[t].skip)
                      => /\ workers[t].state = "installing"
                         /\ workers'[t].state = "installed"
                         /\ Populated(buckets', t)
                /\ workers'[t].failed => ~workers'[t].skip
          /\ variant # "full" =>
                (workers'[t].state # "none" => workers'[t].skip)
          /\ (workers[t].state # "activating" /\ workers'[t].state = "activating")
                => /\ workers[t].state = "installed" /\ workers[t].skip
                   /\ ~workers[t].failed
                   /\ Populated(buckets, t)]_vars

C21_Witness ==
    /\ variant = "neurolocal"
    /\ workers[1].state = "activated"
    /\ workers[2].state = "installing" /\ workers[2].skip
    /\ ~Populated(buckets, 2)

\* C22: whatever the script, once a worker's activate handler has called
\* clients.claim(), no bucket that existed when its activation began and
\* whose name is outside its registry is still listed.
C22_ClaimAfterCleanup ==
    \A t \in Tags :
        workers[t].claimed =>
            \A i \in 1..workers[t].born :
                buckets[i].name \notin Registry(variant, t) => ~buckets[i].live

\* C29: whatever the script, once a version is activated no bucket that
\* an earlier version populated at install or wrote at run time is still
\* listed.
C29_OneGenerationPerRole ==
    \A t \in Tags :
        workers[t].state = "activated" =>
            \A u \in Tags :
                u < t => /\ InstallCache(variant, u) \notin Keys(buckets)
                         /\ CACHE_NAME(variant, u) \notin Keys(buckets)

(***************************************************************************)
(* Properties of request handling (specification Serving).                 *)
(***************************************************************************)
\* C6: a request on which the fetch handler returns early is passed
\* through: respondWith is not called, no Cache Storage call is made for it
\* at any time, and the step that handles it changes no bucket.
C6_BypassTouchesNothing ==
    [][\A i \in DOMAIN tasks' :
          Bypassed(variant, tasks'[i].req) =>
             /\ tasks'[i].strategy = "BYPASS"
             /\ tasks'[i].result = PassThrough
             /\ tasks'[i].pc = "done"
             /\ tasks'[i].ops = {}
             /\ (i \notin DOMAIN tasks => buckets' = buckets)]_vars

C6_Witness ==
    \E i, j \in DOMAIN tasks :
        /\ tasks[i].strategy = "BYPASS" /\ tasks[i].req.method = "GET"
        /\ tasks[i].result = PassThrough
        /\ "put" \in tasks[j].ops

\* A request for inference-model weights: its host is a model-hosting
\* domain or its path ends in .bin or .wasm.
LargeModelRequest(req) ==
    LET url == ParseURL(req.url)
    IN  \/ Includes(Hostname(url), <<"huggingface">>)
        \/ EndsWith(Pathname(url), <<".bin">>)
        \/ EndsWith(Pathname(url), <<".wasm">>)

\* C7: every request for model weights is classified BYPASS, and no
\* runtime bucket ever holds an entry for it.
C7_LargeModelBypassed ==
    \A i \in DOMAIN tasks :
        LargeModelRequest(tasks[i].req) =>
            /\ tasks[i].strategy = "BYPASS"
            /\ \A b \in DOMAIN buckets :
                  buckets[b].name = CACHE_NAME(variant, tasks[i].tag)
                     => Key(tasks[i]) \notin DOMAIN buckets[b].entries

\* C8: every request whose method is not GET is classified BYPASS: no
\* respondWith, no cache lookup, no cache write.
C8_NonGetBypassed ==
    \A i \in DOMAIN tasks :
        tasks[i].req.method # "GET" =>
            /\ tasks[i].strategy = "BYPASS"
            /\ tasks[i].result = PassThrough
            /\ tasks[i].ops = {}

\* C9: a cacheFirst call whose lookup found an entry returns exactly that
\* entry to the page.
C9_CacheFirstHitReturnsEntry ==
    \A i \in DOMAIN tasks :
        (tasks[i].strategy = "CACHE_FIRST" /\ tasks[i].cached # NoResponse
            /\ tasks[i].pc = "done")
           => /\ tasks[i].thrown = ""
              /\ tasks[i].result = Responded("cache", tasks[i].cached)

\* cacheFirst has returned or thrown.
Settled(task) == task.pc \in {"done", "offline"}

\* A cacheFirst call that missed and settles in this step.
CacheFirstMissSettles(old, new) ==
    /\ new.strategy = "CACHE_FIRST"
    /\ "match" \in new.ops /\ new.cached = NoResponse
    /\ ~Settled(old) /\ Settled(new)

\* C10 as claimed: on a miss, whenever the fetch resolves, the response is
\* returned and is the entry of the key.
C10_MissStoresWhateverResolves ==
    [][\A i \in DOMAIN tasks :
          (CacheFirstMissSettles(tasks[i], tasks'[i])
              /\ tasks'[i].held # NoResponse)
             => /\ tasks'[i].result = Responded("network", tasks'[i].held)
                /\ Match(buckets', tasks'[i].handle, Key(tasks'[i]))
                      = tasks'[i].held]_vars

\* C10 as amended: on a miss cacheFirst fetches; an ok response is stored
\* under the request key and returned, and a match on the cache then
\* returns it; a response with an error status is returned and not stored;
\* when the fetch rejects, cacheFirst throws the network error and no
\* bucket changes.
C10_MissStoresOkResponse ==
    [][\A i \in DOMAIN tasks :
          CacheFirstMissSettles(tasks[i], tasks'[i]) =>
             LET t == tasks'[i]
             IN  IF t.held = NoResponse
                 THEN /\ t.thrown = "network"
                      /\ t.result.kind # "response"
                      /\ buckets' = buckets
                 ELSE /\ t.thrown = ""
                      /\ t.result = Responded("network", t.held)
                      /\ IF t.held.ok
                         THEN /\ "put" \in t.ops
                              /\ Match(buckets', t.handle, Key(t)) = t.held
                         ELSE buckets' = buckets /\ "put" \notin t.ops]_vars

C10_Witness ==
    \E i, j \in DOMAIN tasks :
        /\ tasks[i].strategy = "CACHE_FIRST" /\ tasks[i].pc = "done"
        /\ tasks[i].cached = NoResponse /\ tasks[i].held.ok
        /\ Match(buckets, tasks[i].handle, Key(tasks[i])) = tasks[i].held
        /\ tasks[j].strategy = "CACHE_FIRST" /\ tasks[j].pc = "done"
        /\ tasks[j].cached = NoResponse /\ tasks[j].thrown = "network"

\* A networkFirst call whose fetch was rejected and whose catch block has
\* run: the request was made while the network was unreachable.
NetworkFirstOffline(task) ==
    /\ task.strategy = "NETWORK_FIRST" /\ task.pc = "done"
    /\ task.held = NoResponse /\ "match" \in task.ops

\* The events that have put a response under key.
Writers(key) ==
    {k \in DOMAIN tasks : Key(tasks[k]) = key /\ "put" \in tasks[k].ops}

\* C11 as claimed: when an earlier networkFirst request for the same key
\* completed with a response from the network, a later networkFirst request
\* made while the network is unreachable is answered from the cache.
C11_FallbackAfterAnyResponse ==
    \A j \in DOMAIN tasks : NetworkFirstOffline(tasks[j]) =>
        \A i \in tasks[j].after :
            (tasks[i].strategy = "NETWORK_FIRST" /\ Key(tasks[i]) = Key(tasks[j])
                /\ tasks[i].held # NoResponse)
               => tasks[j].result.kind = "response"

\* C11 as amended: when an earlier networkFirst request for the same key
\* completed with an ok response from the network, a later networkFirst
\* request made while the network is unreachable is answered, without an
\* error, with a response that a request stored under the key: the earlier
\* request's response when no other request has stored one.
C11_FallbackAfterOkResponse ==
    \A j \in DOMAIN tasks : NetworkFirstOffline(tasks[j]) =>
        \A i \in tasks[j].after :
            (tasks[i].strategy = "NETWORK_FIRST" /\ Key(tasks[i]) = Key(tasks[j])
                /\ tasks[i].held # NoResponse /\ tasks[i].held.ok)
               => /\ tasks[j].thrown = ""
                  /\ tasks[j].result.kind = "response"
                  /\ tasks[j].result.from = "cache"
                  /\ tasks[j].result.body \in
                        {tasks[k].held : k \in Writers(Key(tasks[j]))}
                  /\ (Writers(Key(tasks[j])) = {i}
                        => tasks[j].result.body = tasks[i].held)

C11_Witness ==
    \E j \in DOMAIN tasks : \E i \in tasks[j].after :
        /\ NetworkFirstOffline(tasks[j])
        /\ tasks[i].strategy = "NETWORK_FIRST" /\ Key(tasks[i]) = Key(tasks[j])
        /\ tasks[i].held # NoResponse /\ tasks[i].held.ok
        /\ tasks[j].result = Responded("cache", tasks[i].held)

\* Some listed bucket holds the offline document.
OfflineDocumentAvailable ==
    /\ MatchAny(buckets, OfflineKey) # NoResponse
    /\ MatchAny(buckets, OfflineKey).ok

\* C12: in the full worker, a document request whose strategy threw the
\* network error (the fetch was rejected and the strategy found no entry
\* for the request) is answered with the cached /index.html: respondWith
\* is given neither a rejection nor an empty value.
C12_DocumentFallsBackToOfflinePage ==
    /\ variant = "full" => OfflineDocumentAvailable
    /\ \A i \in DOMAIN tasks :
          (variant = "full" /\ AcceptsHtml(tasks[i].req)
              /\ tasks[i].thrown = "network" /\ tasks[i].pc = "done")
             => /\ tasks[i].result.kind = "response"
                /\ tasks[i].result.from = "offline"
                /\ tasks[i].result.body.url = OfflineKey
                /\ tasks[i].result.body.ok

C12_Witness ==
    \E i, j \in DOMAIN tasks :
        /\ variant = "full"
        /\ tasks[i].strategy = "CACHE_FIRST" /\ tasks[j].strategy = "NETWORK_FIRST"
        /\ \A k \in {i, j} :
              /\ AcceptsHtml(tasks[k].req) /\ tasks[k].thrown = "network"
              /\ tasks[k].cached = NoResponse
              /\ tasks[k].result.from = "offline"
              /\ tasks[k].result.body.url = OfflineKey

\* C23: when the fetch of a networkFirst call for a request that does not
\* accept text/html was rejected and the lookup of its catch block finds
\* no entry in any bucket, respondWith is rejected with the network error,
\* the call has neither opened nor written a cache, and no bucket changes.
C23_NetworkFirstMissPropagates ==
    [][\A i \in DOMAIN tasks :
          (tasks[i].strategy = "NETWORK_FIRST" /\ ~AcceptsHtml(tasks[i].req)
              /\ tasks[i].pc = "fallback" /\ tasks'[i].pc # "fallback"
              /\ tasks[i].held = NoResponse
              /\ MatchAny(buckets, Key(tasks[i])) = NoResponse)
             => /\ tasks'[i].pc = "done"
                /\ tasks'[i].thrown = "network"
                /\ tasks'[i].result = Rejected("network")
                /\ tasks'[i].ops = {"match"}
                /\ buckets' = buckets]_vars

C23_Witness ==
    \E i \in DOMAIN tasks :
        /\ tasks[i].strategy = "NETWORK_FIRST" /\ ~AcceptsHtml(tasks[i].req)
        /\ tasks[i].req.method = "GET"
        /\ tasks[i].result = Rejected("network")
        /\ tasks[i].ops = {"match"} /\ tasks[i].cached = NoResponse
        /\ \A b \in DOMAIN buckets :
              Key(tasks[i]) \notin DOMAIN buckets[b].entries

\* The strategy call of task executes its cache.put in this step.
Puts(old, new) == old.pc = "put" /\ new.pc = "done" /\ "put" \in new.ops

\* The requests that have put a response under key through handle h.
PutBy(ts, h, key) ==
    {k \in DOMAIN ts : ts[k].handle = h /\ Key(ts[k]) = key /\ "put" \in ts[k].ops}

\* C27: a put leaves its response as the entry of its key; an entry of a
\* bucket changes only in the step of a put for its key, and never
\* disappears; so when several requests, in whatever interleaving, have
\* put responses for one key, the entry is the response of the put that
\* executed last, which is one of theirs.
C27_LastPutWins ==
    [][/\ \A i \in DOMAIN tasks :
            Puts(tasks[i], tasks'[i])
               => Match(buckets', tasks[i].handle, Key(tasks[i])) = tasks[i].held
       /\ \A b \in DOMAIN buckets' : \A key \in DOMAIN buckets'[b].entries :
            (\/ b \notin DOMAIN buckets
             \/ key \notin DOMAIN buckets[b].entries
             \/ buckets[b].entries[key] # buckets'[b].entries[key])
               => \E i \in DOMAIN tasks :
                     /\ Puts(tasks[i], tasks'[i])
                     /\ tasks[i].handle = b /\ Key(tasks[i]) = key
       /\ \A b \in DOMAIN buckets :
            /\ b \in DOMAIN buckets'
            /\ DOMAIN buckets[b].entries \subseteq DOMAIN buckets'[b].entries
       /\ \A i \in DOMAIN tasks' :
            "put" \in tasks'[i].ops =>
                Match(buckets', tasks'[i].handle, Key(tasks'[i])) \in
                    {tasks'[k].held :
                        k \in PutBy(tasks', tasks'[i].handle, Key(tasks'[i]))}]_vars

C27_Witness ==
    \E i, j \in DOMAIN tasks :
        /\ i < j /\ i \notin tasks[j].after
        /\ Key(tasks[i]) = Key(tasks[j]) /\ tasks[i].handle = tasks[j].handle
        /\ "put" \in tasks[i].ops /\ "put" \in tasks[j].ops
        /\ tasks[i].held # tasks[j].held
        /\ Match(buckets, tasks[i].handle, Key(tasks[i])) = tasks[i].held

\* C28: the full fetch handler either returns without respondWith,
\* exactly for the requests it bypasses and without any cache call, or
\* gives respondWith the outcome of the one strategy function it chose: a
\* response that function returned, or, after that function threw, the
\* offline document for a request accepting text/html and the error
\* otherwise.  The choice never changes and a settled outcome is final.
C28_ExactlyOneOutcome ==
    [][\A i \in DOMAIN tasks' :
          variant = "full" =>
             LET t == tasks'[i]
             IN  /\ t.result = PassThrough <=> Bypassed("full", t.req)
                 /\ t.result = PassThrough
                       => t.strategy = "BYPASS" /\ t.ops = {} /\ t.thrown = ""
                 /\ t.result # PassThrough
                       => /\ t.strategy \in Strategies
                          /\ t.strategy = StrategyFull(t.req)
                 /\ t.result.kind = "response"
                       => \/ t.thrown = "" /\ t.result.from \in {"cache", "network"}
                          \/ /\ t.thrown # "" /\ t.result.from = "offline"
                             /\ AcceptsHtml(t.req)
                 /\ t.result.kind = "error"
                       => t.thrown # "" /\ ~AcceptsHtml(t.req)
                 /\ i \in DOMAIN tasks
                       => /\ tasks[i].req = t.req
                          /\ tasks[i].strategy = t.strategy
                          /\ tasks[i].result # NoResult => t = tasks[i]]_vars

C28_Witness ==
    \E i, j \in DOMAIN tasks :
        /\ variant = "full"
        /\ tasks[i].result = PassThrough /\ tasks[i].req.method = "GET"
        /\ tasks[j].strategy = "CACHE_FIRST" /\ tasks[j].thrown = "network"
        /\ tasks[j].result.kind = "response" /\ tasks[j].result.from = "offline"

(***************************************************************************)
(* Properties of the dispatch of full (specification Serving).             *)
(***************************************************************************)
\* A GET request that the full worker answers and whose path is not an API
\* path.
Dispatched(req) ==
    /\ ~Bypassed("full", req)
    /\ ~Includes(Pathname(ParseURL(req.url)), <<"/", "api", "/">>)

\* The request's URL is one of the manifest's URLs.
ManifestRequest(req) == KeyOf(req.url) \in ManifestKeys("full")

\* C15: the full worker hands a request to a CDN host that is not
\* bypassed, not an API call, not for a manifest URL and not for a document
\* to staleWhileRevalidate.
C15_CdnGoesToStaleWhileRevalidate ==
    \A i \in DOMAIN tasks :
        (variant = "full" /\ Dispatched(tasks[i].req)
            /\ isCDNAsset(ParseURL(tasks[i].req.url))
            /\ ~ManifestRequest(tasks[i].req) /\ ~AcceptsHtml(tasks[i].req))
           => tasks[i].strategy = "STALE_WHILE_REVALIDATE"

\* C16: the full worker hands a request that is not bypassed and not an
\* API call to cacheFirst only when its URL is a manifest URL or it accepts
\* text/html; any other goes to staleWhileRevalidate when its host is a
\* CDN host and to networkFirst otherwise.
C16_CacheFirstOnlyForManifestOrDocument ==
    \A i \in DOMAIN tasks :
        (variant = "full" /\ Dispatched(tasks[i].req)) =>
            tasks[i].strategy =
                IF ManifestRequest(tasks[i].req) \/ AcceptsHtml(tasks[i].req)
                THEN "CACHE_FIRST"
                ELSE IF isCDNAsset(ParseURL(tasks[i].req.url))
                     THEN "STALE_WHILE_REVALIDATE"
                     ELSE "NETWORK_FIRST"

\* C30: in the full worker, a GET request for a manifest URL whose fetch
\* is rejected (the network is unreachable) is answered with the response
\* the install stored for that URL in the core cache.
C30_ManifestServedOffline ==
    \A i \in DOMAIN tasks :
        (variant = "full" /\ tasks[i].req.method = "GET"
            /\ ManifestRequest(tasks[i].req)
            /\ tasks[i].thrown = "network" /\ tasks[i].pc = "done")
           => /\ tasks[i].result.kind = "response"
              /\ tasks[i].result.body =
                    MatchIn(buckets, CORE_CACHE(tasks[i].tag),
                            KeyOf(tasks[i].req.url))

(***************************************************************************)
(* Properties of the strategy functions (specification Calls).             *)
(***************************************************************************)
\* C13: a staleWhileRevalidate call throws nothing; it returns the cached
\* entry when its lookup found one, otherwise the response of its fetch;
\* and an ok response of its fetch is then the entry of the key.
C13_StaleWhileRevalidateReturns ==
    \A i \in DOMAIN tasks :
        (tasks[i].strategy = "STALE_WHILE_REVALIDATE" /\ tasks[i].pc = "done")
           => /\ tasks[i].thrown # "reference"
              /\ tasks[i].cached # NoResponse
                    => tasks[i].result = Responded("cache", tasks[i].cached)
              /\ (tasks[i].cached = NoResponse /\ tasks[i].held # NoResponse)
                    => tasks[i].result = Responded("network", tasks[i].held)
              /\ tasks[i].held.ok
                    => Match(buckets, tasks[i].handle, Key(tasks[i]))
                          # NoResponse

\* C14: a staleWhileRevalidate call that finds an entry answers with it,
\* and a staleWhileRevalidate call for the same key made after that one
\* has settled is answered with the entry the cache then holds.
C14_StaleThenFresh ==
    \A j \in DOMAIN tasks : \A i \in tasks[j].after :
        (tasks[i].strategy = "STALE_WHILE_REVALIDATE"
            /\ tasks[j].strategy = "STALE_WHILE_REVALIDATE"
            /\ Key(tasks[i]) = Key(tasks[j])
            /\ tasks[i].cached # NoResponse /\ tasks[j].pc = "done")
           => /\ tasks[i].result.kind = "response"
              /\ tasks[i].result.body = tasks[i].cached
              /\ tasks[j].result.kind = "response"
              /\ tasks[j].result.body
                    = Match(buckets, tasks[j].handle, Key(tasks[j]))

\* C20: of two cacheFirst calls for the same request, the second made
\* after the first has settled, that both find an entry for the key, each
\* returns the entry it found, and the two return the same response.
C20_CacheFirstIdempotent ==
    \A j \in DOMAIN tasks : \A i \in tasks[j].after :
        (tasks[i].strategy = "CACHE_FIRST" /\ tasks[j].strategy = "CACHE_FIRST"
            /\ tasks[i].req = tasks[j].req /\ tasks[j].pc = "done"
            /\ tasks[i].cached # NoResponse /\ tasks[j].cached # NoResponse)
           => /\ tasks[i].result = Responded("cache", tasks[i].cached)
              /\ tasks[j].result = Responded("cache", tasks[j].cached)
              /\ tasks[j].result = tasks[i].result

\* C24: the step in which the lookup of cacheFirst or staleWhileRevalidate
\* finds an entry answers the request with that entry, without an error
\* and without waiting for the fetch of the refresh.
C24_HitAnsweredBeforeRefresh ==
    [][\A i \in DOMAIN tasks :
          (tasks[i].strategy \in {"CACHE_FIRST", "STALE_WHILE_REVALIDATE"}
              /\ tasks[i].pc = "match" /\ tasks'[i] # tasks[i]
              /\ tasks'[i].cached # NoResponse)
             => /\ tasks'[i].thrown = ""
                /\ tasks'[i].pc = "done"
                /\ tasks'[i].result = Responded("cache", tasks'[i].cached)]_vars

\* The strategy call of task returns in this step the error-status response
\* its fetch resolved with.
ReturnsErrorStatus(old, new) ==
    /\ old.pc # "done" /\ new.pc = "done"
    /\ new.held # NoResponse /\ ~new.held.ok

\* C31: an entry of a bucket appears or changes only in the step of a
\* cache.put of a strategy call, into the runtime cache of the worker
\* that answers, and the entry is then the ok response the call's fetch
\* resolved with; a strategy call whose fetch resolved with an error
\* status returns that response to the page, has made no put, and leaves
\* every entry of every bucket as it was.
C31_OnlyOkResponsesStored ==
    [][/\ \A b \in DOMAIN buckets' : \A key \in DOMAIN buckets'[b].entries :
            (\/ b \notin DOMAIN buckets
             \/ key \notin DOMAIN buckets[b].entries
             \/ buckets[b].entries[key] # buckets'[b].entries[key])
               => \E i \in DOMAIN tasks :
                     /\ Puts(tasks[i], tasks'[i])
                     /\ tasks[i].handle = b /\ Key(tasks[i]) = key
                     /\ buckets'[b].name = CACHE_NAME(variant, tasks[i].tag)
                     /\ buckets'[b].entries[key] = tasks[i].held
                     /\ tasks[i].held \in Network(key)
                     /\ tasks[i].held.ok
       /\ \A i \in DOMAIN tasks :
            ReturnsErrorStatus(tasks[i], tasks'[i])
               => /\ tasks'[i].result = Responded("network", tasks'[i].held)
                  /\ "put" \notin tasks'[i].ops
                  /\ \A b \in DOMAIN buckets :
                        buckets'[b].entries = buckets[b].entries]_vars

\* A networkFirst call has returned an error-status response while the
\* runtime cache keeps the good entry it had for the key, and a cacheFirst
\* call has stored the ok response of its fetch.
C31_Witness ==
    \E i, j \in DOMAIN tasks :
        /\ tasks[i].strategy = "NETWORK_FIRST" /\ tasks[i].pc = "done"
        /\ tasks[i].held # NoResponse /\ ~tasks[i].held.ok
        /\ tasks[i].result = Responded("network", tasks[i].held)
        /\ Handle(buckets, CACHE_NAME(variant, tasks[i].tag)) # 0
        /\ Match(buckets, Handle(buckets, CACHE_NAME(variant, tasks[i].tag)),
                 Key(tasks[i])).ok
        /\ tasks[j].strategy = "CACHE_FIRST" /\ tasks[j].pc = "done"
        /\ "put" \in tasks[j].ops /\ tasks[j].held.ok
        /\ Match(buckets, tasks[j].handle, Key(tasks[j])) = tasks[j].held

(***************************************************************************)
(* Properties under storage failures (specification Faults).               *)
(***************************************************************************)
\* C25: a strategy call whose fetch resolved and whose cache.put was
\* rejected answers the request with the network response: no error, and
\* no cached copy in its place.
C25_PutFailureStillAnswers ==
    \A i \in DOMAIN tasks :
        ("putFailed" \in tasks[i].ops /\ tasks[i].pc = "done")
           => /\ tasks[i].thrown = ""
              /\ tasks[i].result = Responded("network", tasks[i].held)

\* C26: a cacheFirst or staleWhileRevalidate call whose caches.open or
\* cache.match was rejected goes on to the network: the request is
\* answered with what the fetch resolved with, or fails with the fetch's
\* error, never with the storage error.
C26_ReadFailureGoesToNetwork ==
    \A i \in DOMAIN tasks :
        (tasks[i].strategy \in {"CACHE_FIRST", "STALE_WHILE_REVALIDATE"}
            /\ tasks[i].ops \cap {"openFailed", "matchFailed"} # {}
            /\ tasks[i].pc = "done")
           => /\ tasks[i].thrown # "storage"
              /\ tasks[i].result.kind = "response"
                    => tasks[i].result = Responded("network", tasks[i].held)
              /\ tasks[i].result.kind = "error"
                    => tasks[i].result = Rejected("network")

(***************************************************************************)
(* Properties of request handling next to the other caches (specification  *)
(* Intercepting).                                                          *)
(***************************************************************************)
\* The bucket is a core cache (the one an install handler populates) or the
\* large-asset cache.
CoreOrLargeAsset(bucket) ==
    \/ bucket.name = MODEL_CACHE
    \/ \E t \in Tags : bucket.name = InstallCache(variant, t)

\* C32: no step of request handling, under any strategy and any outcome
\* of the network, adds, replaces or removes an entry of a core cache or
\* of the large-asset cache, unlists such a cache or creates one: every
\* bucket with such a name is after the step what it was before, and a
\* bucket a step creates has another name.
C32_RequestsWriteRuntimeOnly ==
    [][/\ \A b \in DOMAIN buckets :
            CoreOrLargeAsset(buckets[b])
               => b \in DOMAIN buckets' /\ buckets'[b] = buckets[b]
       /\ \A b \in DOMAIN buckets' :
            b \notin DOMAIN buckets => ~CoreOrLargeAsset(buckets'[b])]_vars

\* A strategy call has stored the response of its fetch for a url the core
\* cache has an entry for, and another for the url the large-asset cache
\* has an entry for: both went to the runtime cache.
C32_Witness ==
    \E i, j \in DOMAIN tasks :
        /\ variant = "full"
        /\ "put" \in tasks[i].ops /\ "put" \in tasks[j].ops
        /\ buckets[tasks[i].handle].name = CACHE_NAME(variant, tasks[i].tag)
        /\ MatchIn(buckets, CORE_CACHE(1), Key(tasks[i])) # NoResponse
        /\ MatchIn(buckets, CORE_CACHE(1), Key(tasks[i])) # tasks[i].held
        /\ Key(tasks[j]) = WeightsURL
        /\ MatchIn(buckets, MODEL_CACHE, WeightsURL) # NoResponse
        /\ MatchIn(buckets, MODEL_CACHE, WeightsURL) # tasks[j].held

(***************************************************************************)
(* Properties of repeated CACHE_MODEL messages (specification Prewarming). *)
(***************************************************************************)
\* C33: cacheModel goes on to open and put with whatever response its
\* fetch resolved with; when that response has an error status, the put
\* leaves it under url in the bucket opened as mlc-model-cache, in place
\* of the entry the bucket had for url, and a match in the listed
\* mlc-model-cache returns it as long as that bucket has not been deleted
\* meanwhile.
C33_WriterStoresErrorStatus ==
    [][\A i \in DOMAIN models :
          /\ (models[i].pc = "fetch" /\ FetchResolved(models'[i]))
                => models'[i].pc = "open"
          /\ (models[i].pc = "put" /\ models'[i].pc = "done"
                  /\ ~models[i].held.ok)
                => LET m == models'[i]
                   IN  /\ m.stored /\ m.held = models[i].held
                       /\ m.replaced = Match(buckets, m.handle, m.url)
                       /\ buckets'[m.handle].name = MODEL_CACHE
                       /\ Match(buckets', m.handle, m.url) = m.held
                       /\ buckets'[m.handle].live
                             => MatchIn(buckets', MODEL_CACHE, m.url) = m.held]_vars

\* A cacheModel call has put an error-status response where the large-asset
\* cache had a good entry.
C33_Witness ==
    \E i \in DOMAIN models :
        /\ models[i].pc = "done" /\ models[i].stored
        /\ FetchResolved(models[i]) /\ ~models[i].held.ok
        /\ models[i].replaced # NoResponse /\ models[i].replaced.ok
        /\ MatchIn(buckets, MODEL_CACHE, models[i].url) = models[i].held

====
